---- MODULE Spec2Model ----
(***************************************************************************)
(* The BigQuery log collector of src/main.py as a state machine.           *)
(*                                                                         *)
(* One run of command(): the arguments are parsed, the collector is        *)
(* constructed (which, from its constructor, runs _execute_handler), and   *)
(* each pass of the while loop determines the cursor, calls jobs.list,     *)
(* turns the page into records, inserts them and rewinds the cursor.       *)
(* The steps are the places where the run blocks on a collaborator (the    *)
(* watermark query, the HTTP request, the insert, the sleep), so that an   *)
(* operator interrupt can be delivered at each of them.                    *)
(*                                                                         *)
(* An optional integer (Python's None or an int) is the empty sequence or  *)
(* a one-element sequence.                                                 *)
(***************************************************************************)
EXTENDS Integers, Sequences, FiniteSets

\* Job creation times are 0..MaxTime (milliseconds since the epoch, scaled).
MaxTime == 1
\* The page size asked of jobs.list (count=10000 in the source, scaled).
MaxResult == 2
\* How far below zero the cursor is followed before the run is left alone.
MaxBelow == 1
\* The largest number of jobs the listing API holds.
MaxJobs == 3

None == << >>
Some(n) == << n >>
IsInt(v) == v # None
Val(v) == v[1]

Times == 0..MaxTime
\* int(time.time() * 1000): the jobs were all created before the run reads the clock.
Now == MaxTime + 1

Kinds == {"query", "load", "other"}
Queries == {"a", "b"}

\* One entry of the jobs.list response, as Job(**j) reads it: the creation
\* time of its statistics and its configuration, a query configuration
\* (with the SQL text), a load configuration or neither.
Jobs ==
    [creationTime : Times, kind : {"query"}, query : Queries]
        \cup [creationTime : Times, kind : Kinds \ {"query"}, query : {""}]

\* The entries a stubbed job source answers with.
StubPool == {j \in Jobs : j.query # "b"}

\* The jobs a project's listing may hold: query jobs, two of which may share
\* a creation time, and load jobs.
ListedJobs == {j \in Jobs : j.kind # "other"}

\* if self.maxCreationTime: / if job.configuration.query: Python truthiness
\* of an optional integer: None and 0 are false.
Truthy(v) == IsInt(v) /\ Val(v) # 0

HasQuery(j) == j.kind = "query"

\* dict(zip(self.columns, values)): the row of one query job. The other
\* columns are functions of the entry and of the clock and are left out.
Record(j) == [logged_epoch |-> j.creationTime, query |-> j.query]

\* The rows a table that exists before the run may hold: rows of jobs
\* logged by earlier runs, created up to now.
LoggedRows == [logged_epoch : 0..Now, query : {"a"}]

RECURSIVE Normalize(_)
\* The for loop of _execute: the records of the page, in page order.
Normalize(page) ==
    IF page = << >> THEN << >>
    ELSE IF HasQuery(Head(page))
         THEN << Record(Head(page)) >> \o Normalize(Tail(page))
         ELSE Normalize(Tail(page))

\* oldest_timestamp after the for loop: each entry overwrites it.
LastCreationTime(page, before) ==
    IF page = << >> THEN before ELSE Some(page[Len(page)].creationTime)

\* SELECT min(logged_epoch) FROM table
MinEpoch(t) == CHOOSE m \in {r.logged_epoch : r \in t} :
                  \A r \in t : m <= r.logged_epoch

VARIABLES
    pc,               \* where the run is
    args,             \* the parsed command line
    source,           \* "stub" or "listing": which job source answers
    upstream,         \* the jobs the job source holds
    table,            \* the rows of the destination table
    created,          \* whether _create_table was called
    maxCreationTime,  \* self.maxCreationTime
    oldest_timestamp, \* the local of _execute
    until,            \* the bound sent with the latest jobs.list request
    status,           \* the status of the latest response: "none", "ok", "error"
    jobs_list,        \* the local of _execute: response['jobs']
    records,          \* the local of _execute
    rows_to_insert,   \* the argument of the insert_record call in flight
    stats,            \* what _execute returned last, << >> before it has
    watermark,        \* what select_oldest_timestamp has returned in this run:
                      \* "none" (not called), "ok" (a row each time), "nothing"
    interrupted,      \* whether a KeyboardInterrupt was delivered
    raised,           \* the exception that ended the run, "" when none did
    exitCode          \* the exit status once pc = "exited"

vars == << pc, args, source, upstream, table, created, maxCreationTime,
           oldest_timestamp, until, status, jobs_list, records,
           rows_to_insert, stats, watermark, interrupted, raised, exitCode >>

append == args.append
dryrun == args.dryrun
infinite == args.infinite

\* The pages a job source may answer a request bounded by u with. The stub
\* answers with any page of its entries, whatever was asked.
StubPages == UNION {[1..n -> upstream] : n \in 0..MaxResult}

\* jobs.list with maxCreationTime = u and maxResult = MaxResult: the newest
\* MaxResult jobs created at or before u, newest first. requests drops a
\* parameter whose value is None, so that no bound is sent.
Eligible(u) == {j \in upstream : IsInt(u) => j.creationTime <= Val(u)}

ListingPages(u) ==
    LET n == IF Cardinality(Eligible(u)) < MaxResult
             THEN Cardinality(Eligible(u)) ELSE MaxResult
    IN {p \in [1..n -> Eligible(u)] :
          /\ \A i, k \in 1..n : i < k =>
                 /\ p[i] # p[k]
                 /\ p[i].creationTime >= p[k].creationTime
          /\ \A j \in Eligible(u) \ {p[i] : i \in 1..n} :
                 \A i \in 1..n : j.creationTime <= p[i].creationTime}

Pages(u) == IF source = "stub" THEN StubPages ELSE ListingPages(u)

\* command(), lines 230-237: the arguments of one run.
Arguments ==
    [append : BOOLEAN, dryrun : BOOLEAN, infinite : BOOLEAN,
     table_id : {"", "given"},
     maxCreationTime : {None} \cup {Some(t) : t \in 0..Now}]

\* A table named on the command line exists and holds rows logged earlier;
\* with no name the table does not exist yet and is created empty.
InitCommon ==
    /\ pc = "construct"
    /\ args \in Arguments
    /\ table \in (IF args.table_id = "given"
                  THEN SUBSET LoggedRows
                  ELSE {{}})
    /\ created = FALSE
    /\ maxCreationTime = None
    /\ oldest_timestamp = None
    /\ until = None
    /\ status = "none"
    /\ jobs_list = << >>
    /\ records = << >>
    /\ rows_to_insert = << >>
    /\ stats = << >>
    /\ watermark = "none"
    /\ interrupted = FALSE
    /\ raised = ""
    /\ exitCode = None

Init ==
    /\ source = "stub"
    /\ upstream = StubPool
    /\ InitCommon

InitListing ==
    /\ source = "listing"
    /\ upstream \in {S \in SUBSET ListedJobs : Cardinality(S) <= MaxJobs}
    /\ InitCommon

\* The process ends, by the end of command() or by an exception: its memory
\* goes with it, the destination table and what was logged stay. command()
\* turns KeyboardInterrupt into os._exit(0); any other exception leaves the
\* interpreter with status 1.
Leave(exception) ==
    /\ pc' = "exited"
    /\ raised' = exception
    /\ exitCode' = IF exception \in {"", "KeyboardInterrupt"}
                   THEN Some(0) ELSE Some(1)
    /\ maxCreationTime' = None
    /\ oldest_timestamp' = None
    /\ until' = None
    /\ jobs_list' = << >>
    /\ records' = << >>
    /\ rows_to_insert' = << >>
    /\ stats' = << >>
    /\ UNCHANGED << args, source, upstream, created, watermark >>

Exit(exception) ==
    /\ Leave(exception)
    /\ UNCHANGED table

\* BigQuery.__init__ and BigQueryLogCollector.__init__ up to the call of
\* _execute_handler.
Construct ==
    /\ pc = "construct"
    /\ created' = (args.table_id = "" /\ ~dryrun)
    /\ maxCreationTime' = args.maxCreationTime
    /\ pc' = "cursor"
    /\ UNCHANGED << args, source, upstream, table, oldest_timestamp, until,
                    status, jobs_list, records, rows_to_insert, stats,
                    watermark, interrupted, raised, exitCode >>

\* _execute, lines 177-183, and the call of _get_jobs_list when the cursor
\* needs no query.
DetermineCursor ==
    /\ pc = "cursor"
    /\ IF Truthy(maxCreationTime)
       THEN /\ oldest_timestamp' = maxCreationTime
            /\ until' = maxCreationTime
            /\ pc' = "fetch"
       ELSE IF append
       THEN /\ pc' = "watermark"
            /\ UNCHANGED << oldest_timestamp, until >>
       ELSE /\ oldest_timestamp' = Some(Now)
            /\ until' = Some(Now)
            /\ pc' = "fetch"
    /\ UNCHANGED << args, source, upstream, table, created, maxCreationTime,
                    status, jobs_list, records, rows_to_insert, stats,
                    watermark, interrupted, raised, exitCode >>

\* select_oldest_timestamp returns v to _execute, which passes it to
\* _get_jobs_list.
WatermarkReturns(v) ==
    /\ oldest_timestamp' = v
    /\ until' = v
    /\ watermark' = IF IsInt(v) /\ watermark # "nothing" THEN "ok" ELSE "nothing"
    /\ pc' = "fetch"
    /\ UNCHANGED << args, source, upstream, table, created, maxCreationTime,
                    status, jobs_list, records, rows_to_insert, stats,
                    raised, exitCode >>

\* The watermark without the subtraction: the oldest logged epoch itself.
OldestTimestampInclusive(t) == Some(MinEpoch(t))

\* select_oldest_timestamp, line 155: the first row of the aggregate query.
OldestTimestamp(t) == Some(MinEpoch(t) - 1)

WatermarkRow ==
    /\ pc = "watermark"
    /\ table # {}
    /\ WatermarkReturns(OldestTimestamp(table))
    /\ UNCHANGED interrupted

\* select_oldest_timestamp: the table is empty (int(None) raises) or the
\* query fails; the bare except returns None.
WatermarkNothing ==
    /\ pc = "watermark"
    /\ WatermarkReturns(None)
    /\ UNCHANGED interrupted

\* The response of jobs.list has a success status: lines 194-201.
RespondOk ==
    /\ pc = "fetch"
    /\ \E page \in Pages(until) :
          /\ status' = "ok"
          /\ jobs_list' = page
          /\ records' = << >>
          /\ pc' = "normalize"
    /\ UNCHANGED << args, source, upstream, table, created, maxCreationTime,
                    oldest_timestamp, until, rows_to_insert, stats,
                    watermark, interrupted, raised, exitCode >>

\* An error status that is only logged: the run goes on with no entry.
HttpErrorLogged ==
    /\ status' = "error"
    /\ jobs_list' = << >>
    /\ records' = << >>
    /\ pc' = "normalize"
    /\ UNCHANGED << args, source, upstream, table, created, maxCreationTime,
                    oldest_timestamp, until, rows_to_insert, stats,
                    watermark, raised, exitCode >>

\* raise_for_status raises HTTPError: raise SystemExit(err), which nothing
\* catches; the interpreter prints err and exits with status 1.
HttpError ==
    /\ status' = "error"
    /\ Exit("SystemExit")

RespondError ==
    /\ pc = "fetch"
    /\ HttpError
    /\ UNCHANGED interrupted

\* The for loop of _execute, lines 202-210.
NormalizePage ==
    /\ pc = "normalize"
    /\ records' = Normalize(jobs_list)
    /\ oldest_timestamp' = LastCreationTime(jobs_list, oldest_timestamp)
    /\ pc' = "persist"
    /\ UNCHANGED << args, source, upstream, table, created, maxCreationTime,
                    until, status, jobs_list, rows_to_insert, stats,
                    watermark, interrupted, raised, exitCode >>

\* The cursor without the rewind: the last creation time itself.
NextCursorSame(last_creation_time) == last_creation_time

\* _execute_handler, line 221.
NextCursor(last_creation_time) == Some(Val(last_creation_time) - 1)

\* _execute returns {'last_creation_time': oldest_timestamp} and its locals
\* are gone; _execute_handler, lines 218-222, ends the loop or sets the
\* next cursor and sleeps. None - 1 raises TypeError, which nothing catches:
\* the interpreter exits with status 1.
Return ==
    IF ~infinite
    THEN Leave("")
    ELSE IF ~IsInt(oldest_timestamp)
    THEN Leave("TypeError")
    ELSE /\ Val(NextCursor(oldest_timestamp)) >= 0 - MaxBelow
         /\ stats' = << oldest_timestamp >>
         /\ maxCreationTime' = NextCursor(oldest_timestamp)
         /\ oldest_timestamp' = None
         /\ jobs_list' = << >>
         /\ records' = << >>
         /\ rows_to_insert' = << >>
         /\ pc' = "sleep"
         /\ UNCHANGED << args, source, upstream, created, until,
                         watermark, raised, exitCode >>

\* Line 211 without its dry-run test, and without its test for records.
InsertingInDryrun == Len(records) > 0

InsertingEmpty == ~dryrun

\* Line 211: whether insert_record is called.
Inserting == Len(records) > 0 /\ ~dryrun

\* Lines 211-214: the insert is called, or skipped and _execute returns.
Persist ==
    /\ pc = "persist"
    /\ IF Inserting
       THEN /\ rows_to_insert' = records
            /\ pc' = "insert"
            /\ UNCHANGED << args, source, upstream, table, created,
                            maxCreationTime, oldest_timestamp, until,
                            jobs_list, records, stats, watermark, raised, exitCode >>
       ELSE /\ Return
            /\ UNCHANGED table
    /\ UNCHANGED << status, interrupted >>

\* insert_record: insert_rows_json reports no error, or reports errors and
\* adds no row; the errors are printed and the run goes on.
InsertDone(added) ==
    /\ pc = "insert"
    /\ table' = table \cup added
    /\ Return
    /\ UNCHANGED << status, interrupted >>

InsertOk == InsertDone({rows_to_insert[i] : i \in 1..Len(rows_to_insert)})

InsertErrors == InsertDone({})

\* time.sleep(1) returns and the while loop calls _execute again.
Wake ==
    /\ pc = "sleep"
    /\ pc' = "cursor"
    /\ UNCHANGED << args, source, upstream, table, created, maxCreationTime,
                    oldest_timestamp, until, status, jobs_list, records,
                    rows_to_insert, stats, watermark, interrupted, raised, exitCode >>

\* KeyboardInterrupt. While select_oldest_timestamp iterates over the query
\* job, the bare except of line 156 catches it and None is returned;
\* anywhere else it reaches command(), which exits with status 0.
Interrupt ==
    /\ pc # "exited"
    /\ interrupted' = TRUE
    /\ IF pc = "watermark"
       THEN WatermarkReturns(None)
       ELSE /\ Exit("KeyboardInterrupt")
            /\ UNCHANGED status

Next ==
    \/ Construct
    \/ DetermineCursor
    \/ WatermarkRow
    \/ WatermarkNothing
    \/ RespondOk
    \/ RespondError
    \/ NormalizePage
    \/ Persist
    \/ InsertOk
    \/ InsertErrors
    \/ Wake
    \/ Interrupt

Spec == Init /\ [][Next]_vars

SpecListing == InitListing /\ [][Next]_vars

----------------------------------------------------------------------------
(* The properties of the collector.                                        *)

Entries(page) == {page[i] : i \in 1..Len(page)}

MinCreationTime(page) ==
    CHOOSE m \in {j.creationTime : j \in Entries(page)} :
        \A j \in Entries(page) : m <= j.creationTime

\* The records of a page, read off the page without the loop: one for each
\* entry with a query configuration, in the order of the page.
RecordsInPageOrder(page) ==
    LET q == SelectSeq(page, HasQuery)
    IN [i \in 1..Len(q) |-> Record(q[i])]

\* C1: in infinite mode, when _execute returns after a non-empty page, the
\* cursor stored for the next fetch is the smallest creation time of the
\* page minus one, whatever the order of the page.
C1_NextCursorIsPageMinimum ==
    [][(pc' = "sleep" /\ jobs_list # << >>)
          => maxCreationTime' = Some(MinCreationTime(jobs_list) - 1)]_vars

\* C2: in append mode with no cursor override, as long as every watermark
\* lookup of the run returned a row, the first fetch is bounded by the
\* oldest logged epoch minus one, and every entry of every page the listing
\* answers with was created strictly before every row of the table.
C2_AppendFetchesBelowTable ==
    (append /\ args.maxCreationTime = None /\ watermark = "ok") =>
        /\ (pc = "fetch" /\ stats = << >>)
              => until = Some(MinEpoch(table) - 1)
        /\ pc = "normalize"
              => \A j \in Entries(jobs_list) : \A r \in table :
                     j.creationTime < r.logged_epoch

C2_Witness ==
    /\ append /\ args.maxCreationTime = None /\ watermark = "ok"
    /\ pc = "normalize"
    /\ stats # << >>
    /\ jobs_list # << >>
    /\ Cardinality(table) > 1

\* C3: in a dry run no step writes to the destination: no insert call is
\* started, the table keeps its rows and was never created, and a page
\* that was fetched is still turned into its records.
C3_DryRunWritesNothing ==
    [][dryrun =>
          /\ pc' # "insert"
          /\ table' = table
          /\ ~created'
          /\ (pc = "normalize" /\ pc' = "persist")
                => records' = RecordsInPageOrder(jobs_list)]_vars

C3_Witness ==
    /\ dryrun
    /\ infinite
    /\ args.table_id = ""
    /\ stats # << >>
    /\ pc = "persist"
    /\ Len(records) = 2

\* C4: a non-success status of jobs.list ends the run with a non-zero exit
\* status in the step that receives it, with the table as the earlier
\* iterations left it, and no step follows.
C4_HttpErrorEndsRun ==
    [][/\ status # "error"
       /\ status' = "error"
             => /\ pc = "fetch"
                /\ pc' = "exited"
                /\ IsInt(exitCode') /\ Val(exitCode') # 0
                /\ table' = table]_vars

C4_Witness ==
    /\ status = "error"
    /\ pc = "exited"
    /\ created
    /\ table # {}

\* C5: once an interrupt was delivered the run has ended with exit
\* status 0.
C5_InterruptStopsRun ==
    interrupted =>
        (pc = "exited" /\ raised = "KeyboardInterrupt" /\ exitCode = Some(0))

\* C6: in append mode with no cursor override, when the watermark lookup
\* returned nothing, the first fetch is bounded by the current time.
C6_NoWatermarkFallsBackToNow ==
    (/\ pc = "fetch"
     /\ stats = << >>
     /\ append
     /\ args.maxCreationTime = None
     /\ watermark = "nothing")
        => until = Some(Now)

\* C7: against a listing that honours the bound, the fetch that follows a
\* fetch bounded by a non-negative integer is bounded by an integer that
\* is no larger.
C7_BoundsNonIncreasing ==
    [][(pc' = "fetch" /\ stats # << >> /\ IsInt(until) /\ Val(until) >= 0)
          => (IsInt(until') /\ Val(until') <= Val(until))]_vars

\* C8: outside a dry run, the step after normalization starts an insert
\* exactly when the page holds an entry with a query configuration, the
\* insert carries one record for each such entry, in page order, and no
\* other; an insert is started by no other step and never with no row.
C8_OneInsertOfQueryRecords ==
    [][~dryrun =>
          /\ (pc = "persist" /\ raised' # "KeyboardInterrupt")
                => IF \E j \in Entries(jobs_list) : HasQuery(j)
                   THEN /\ pc' = "insert"
                        /\ rows_to_insert' = RecordsInPageOrder(jobs_list)
                   ELSE pc' # "insert"
          /\ pc' = "insert"
                => (pc = "persist" /\ rows_to_insert' # << >>)
          /\ pc = "insert" => pc' # "insert"]_vars

C8_Witness ==
    /\ ~dryrun
    /\ pc = "insert"
    /\ Len(jobs_list) = 2
    /\ ~HasQuery(jobs_list[1])
    /\ Len(rows_to_insert) = 1

\* C9, as stated: when _execute returns after an empty page, the cursor
\* stored for the next fetch is the bound of the fetch that returned it.
C9_EmptyPageKeepsCursor ==
    [][(pc' = "sleep" /\ jobs_list = << >> /\ pc = "persist")
          => maxCreationTime' = until]_vars

\* C9, amended: after an empty page normalization leaves the cursor at the
\* bound of the fetch; in infinite mode the handler then stores that bound
\* minus one as the next cursor, or, when the fetch carried no bound, the
\* run ends with a TypeError and exit status 1.
C9_EmptyPageLowersCursorByOne ==
    [][/\ (pc = "normalize" /\ pc' = "persist" /\ jobs_list = << >>)
             => oldest_timestamp' = until
       /\ (/\ pc = "persist" /\ jobs_list = << >>
           /\ infinite /\ raised' # "KeyboardInterrupt")
             => IF IsInt(until)
                THEN /\ pc' = "sleep"
                     /\ maxCreationTime' = Some(Val(until) - 1)
                ELSE /\ raised' = "TypeError"
                     /\ exitCode' = Some(1)]_vars

C9_Witness ==
    /\ infinite
    /\ pc = "persist"
    /\ status = "ok"
    /\ jobs_list = << >>
    /\ IsInt(until)
    /\ oldest_timestamp = until
    /\ stats = << Some(Val(until) + 1) >>

\* C10: outside a dry run, when an iteration ends, every query job of the
\* listing created at or before the bound of its fetch and after the next
\* cursor was on its page: no job is skipped between one page and the next.
C10_NoJobSkipped ==
    [][(pc' = "sleep" /\ ~dryrun) =>
          \A j \in upstream :
              (/\ HasQuery(j)
               /\ IsInt(until) => j.creationTime <= Val(until)
               /\ j.creationTime > Val(maxCreationTime'))
                  => j \in Entries(jobs_list)]_vars

====
